---- MODULE Spec2Model ----
(***************************************************************************)
(* BPE tokenizer of BPE_Tokenizer/BPE_tokenizer.py: training (train_bpe),  *)
(* merge-priority encoding and decoding (BPETokenizer).                    *)
(*                                                                         *)
(* A character is a TLA+ string standing for one code point, a Python str  *)
(* (a text, a symbol) is a sequence of characters, a word shape (a tuple   *)
(* of symbols) is a sequence of symbols.  A dict or Counter is a sequence  *)
(* of entries in insertion order, which is the order Python iterates it in.*)
(***************************************************************************)
EXTENDS Integers, Sequences, FiniteSets, TLC

VARIABLES pc, corpus, num_merges, i, vocab, merges, token2id,
          text, add_special, ids, decoded,
          pair, new_tokens, new_vocab, word, symbols

vars == <<pc, corpus, num_merges, i, vocab, merges, token2id,
          text, add_special, ids, decoded,
          pair, new_tokens, new_vocab, word, symbols>>

(***************************************************************************)
(* Bounds of the model.                                                    *)
(***************************************************************************)
MaxLineLen == 6
MaxShortLen == 2
MaxMerges == 4
MaxProbeId == 8
MaxVocabSymbols == 4
MaxFreq == 2
MaxRules == 2
MaxWordLen == 3

(***************************************************************************)
(* Characters and strings.                                                 *)
(***************************************************************************)
NBSP == "U+00A0"

WHITESPACE == {" ", "\t", "\n", NBSP}

\* code point of a character: the order Python compares strings by
ord(c) ==
    CASE c = "\t" -> 9   [] c = "\n" -> 10  [] c = " " -> 32  [] c = "!" -> 33
      [] c = "/" -> 47   [] c = "<" -> 60   [] c = ">" -> 62  [] c = "H" -> 72
      [] c = "a" -> 97   [] c = "b" -> 98   [] c = "c" -> 99  [] c = "d" -> 100
      [] c = "e" -> 101  [] c = "h" -> 104  [] c = "k" -> 107 [] c = "l" -> 108
      [] c = "m" -> 109  [] c = "n" -> 110  [] c = "o" -> 111 [] c = "p" -> 112
      [] c = "r" -> 114  [] c = "s" -> 115  [] c = "t" -> 116 [] c = "u" -> 117
      [] c = "w" -> 119  [] c = NBSP -> 160

EOW == <<"<", "/", "w", ">">>

PAD == <<"<", "p", "a", "d", ">">>

UNK == <<"<", "u", "n", "k", ">">>

BOS == <<"<", "s", ">">>

EOS == <<"<", "/", "s", ">">>

MASK == <<"<", "m", "a", "s", "k", ">">>

SPECIAL_TOKENS == <<PAD, UNK, BOS, EOS, MASK>>

Range(s) == {s[k] : k \in DOMAIN s}

RECURSIVE Join(_)
\* "".join(parts)
Join(parts) ==
    IF parts = <<>> THEN <<>> ELSE Head(parts) \o Join(Tail(parts))

\* list(w): the characters of a string, each as a one-character symbol
list(w) == [k \in 1..Len(w) |-> <<w[k]>>]

\* s.startswith(p)
StartsWith(s, p) == Len(s) >= Len(p) /\ SubSeq(s, 1, Len(p)) = p

\* s[n:]
Drop(s, n) == SubSeq(s, n + 1, Len(s))

(***************************************************************************)
(* normalize_text                                                          *)
(***************************************************************************)
\* the NFKC form of one character
NFKCChar(c) == IF c = NBSP THEN <<" ">> ELSE <<c>>

\* unicodedata.normalize("NFKC", s)
NFKC(s) == Join([k \in 1..Len(s) |-> NFKCChar(s[k])])

RECURSIVE SkipSpace(_)
\* s without its leading whitespace
SkipSpace(s) ==
    IF s # <<>> /\ Head(s) \in WHITESPACE THEN SkipSpace(Tail(s)) ELSE s

RECURSIVE CollapseSpace(_)
\* re.sub(r"\s+", " ", s)
CollapseSpace(s) ==
    IF s = <<>> THEN <<>>
    ELSE IF Head(s) \in WHITESPACE THEN <<" ">> \o CollapseSpace(SkipSpace(s))
    ELSE <<Head(s)>> \o CollapseSpace(Tail(s))

RECURSIVE DropTrailingSpace(_)
DropTrailingSpace(s) ==
    IF s # <<>> /\ s[Len(s)] \in WHITESPACE
    THEN DropTrailingSpace(SubSeq(s, 1, Len(s) - 1))
    ELSE s

\* s.strip()
strip(s) == DropTrailingSpace(SkipSpace(s))

normalize_text(s) == strip(CollapseSpace(NFKC(s)))

RECURSIVE SplitFrom(_, _)
\* the fragments of s at single spaces, cur being the fragment in progress
SplitFrom(s, cur) ==
    IF s = <<>> THEN <<cur>>
    ELSE IF Head(s) = " " THEN <<cur>> \o SplitFrom(Tail(s), <<>>)
    ELSE SplitFrom(Tail(s), Append(cur, Head(s)))

\* s.split(" ")
split(s) == SplitFrom(s, <<>>)

(***************************************************************************)
(* Counters and dicts in insertion order                                   *)
(***************************************************************************)
\* position of key in d, 0 when absent
IndexOf(d, key) ==
    IF \E k \in DOMAIN d : d[k].key = key
    THEN CHOOSE k \in DOMAIN d : d[k].key = key
    ELSE 0

\* counter[key] += n
CounterAdd(d, key, n) ==
    LET k == IndexOf(d, key)
    IN  IF k = 0 THEN Append(d, [key |-> key, val |-> n])
        ELSE [d EXCEPT ![k].val = @ + n]

\* d[key] = n
DictSet(d, key, n) ==
    LET k == IndexOf(d, key)
    IN  IF k = 0 THEN Append(d, [key |-> key, val |-> n])
        ELSE [d EXCEPT ![k].val = n]

\* counter[key], 0 when absent
Get(d, key) ==
    LET k == IndexOf(d, key) IN IF k = 0 THEN 0 ELSE d[k].val

RECURSIVE SumVals(_)
\* sum(d.values())
SumVals(d) == IF d = <<>> THEN 0 ELSE Head(d).val + SumVals(Tail(d))

(***************************************************************************)
(* get_vocab_from_corpus                                                   *)
(***************************************************************************)
RECURSIVE NonEmpty(_)
\* the fragments that pass "if not w: continue"
NonEmpty(ws) ==
    IF ws = <<>> THEN <<>>
    ELSE IF Head(ws) = <<>> THEN NonEmpty(Tail(ws))
    ELSE <<Head(ws)>> \o NonEmpty(Tail(ws))

RECURSIVE CorpusWords(_)
\* the words of the corpus in the order the two loops visit them
CorpusWords(c) ==
    IF c = <<>> THEN <<>>
    ELSE NonEmpty(split(normalize_text(Head(c)))) \o CorpusWords(Tail(c))

\* tuple(list(w) + ["</w>"])
WordToken(w) == Append(list(w), EOW)

RECURSIVE CountWords(_, _)
CountWords(ws, d) ==
    IF ws = <<>> THEN d
    ELSE CountWords(Tail(ws), CounterAdd(d, WordToken(Head(ws)), 1))

get_vocab_from_corpus(c) == CountWords(CorpusWords(c), <<>>)

(***************************************************************************)
(* get_pair_frequencies                                                    *)
(***************************************************************************)
RECURSIVE CountTokenPairs(_, _, _, _)
\* the inner loop over range(len(token)-1), from index k
CountTokenPairs(token, freq, k, d) ==
    IF k > Len(token) - 1 THEN d
    ELSE CountTokenPairs(token, freq, k + 1,
                         CounterAdd(d, <<token[k], token[k + 1]>>, freq))

RECURSIVE CountPairs(_, _)
CountPairs(v, d) ==
    IF v = <<>> THEN d
    ELSE CountPairs(Tail(v), CountTokenPairs(Head(v).key, Head(v).val, 1, d))

get_pair_frequencies(v) == CountPairs(v, <<>>)

\* the largest count of a non-empty Counter
MaxVal(d) == CHOOSE m \in {d[k].val : k \in DOMAIN d} :
                 \A k \in DOMAIN d : d[k].val <= m

\* a faulty variant: the first pair counted, whatever its frequency
most_common_first(d) == d[1]

\* pairs.most_common(1)[0]: the first entry, in insertion order, of the
\* largest count
most_common(d) ==
    d[CHOOSE k \in DOMAIN d :
          /\ d[k].val = MaxVal(d)
          /\ \A j \in 1..(k - 1) : d[j].val < MaxVal(d)]

(***************************************************************************)
(* merge_pair                                                              *)
(***************************************************************************)
RECURSIVE MergeTokenSkipLast(_, _, _)
\* a faulty variant: the pair is not looked for at the last two symbols
MergeTokenSkipLast(token, a, b) ==
    IF token = <<>> THEN <<>>
    ELSE IF Len(token) > 2 /\ token[1] = a /\ token[2] = b
    THEN <<a \o b>> \o MergeTokenSkipLast(Drop(token, 2), a, b)
    ELSE <<Head(token)>> \o MergeTokenSkipLast(Tail(token), a, b)

RECURSIVE MergeToken(_, _, _)
\* the while loop rewriting one token: left to right, non-overlapping
MergeToken(token, a, b) ==
    IF token = <<>> THEN <<>>
    ELSE IF Len(token) > 1 /\ token[1] = a /\ token[2] = b
    THEN <<a \o b>> \o MergeToken(Drop(token, 2), a, b)
    ELSE <<Head(token)>> \o MergeToken(Tail(token), a, b)

\* new_token of every iteration of the loop over vocab.items()
NewTokens(v, p) == [k \in DOMAIN v |-> MergeToken(v[k].key, p[1], p[2])]

RECURSIVE StoreTokens(_, _, _)
\* new_vocab[tuple(new_token)] = freq, for every entry in turn
StoreTokens(toks, v, d) ==
    IF toks = <<>> THEN d
    ELSE StoreTokens(Tail(toks), Tail(v), DictSet(d, Head(toks), Head(v).val))

merge_pair(v, p) == StoreTokens(NewTokens(v, p), v, <<>>)

(***************************************************************************)
(* train_bpe: the loop test and the token list                             *)
(***************************************************************************)
\* a faulty variant: the loop runs once more than the budget
InRangeInclusive(k, n) == k <= n

\* "for i in range(num_merges)": the loop has an iteration number k
InRange(k, n) == k < n

RECURSIVE StrLess(_, _)
\* s < t on Python strings: lexicographic by code point
StrLess(s, t) ==
    IF t = <<>> THEN FALSE
    ELSE IF s = <<>> THEN TRUE
    ELSE IF Head(s) # Head(t) THEN ord(Head(s)) < ord(Head(t))
    ELSE StrLess(Tail(s), Tail(t))

RECURSIVE sorted(_)
\* sorted(S) of a set of strings
sorted(S) ==
    IF S = {} THEN <<>>
    ELSE LET m == CHOOSE x \in S : \A y \in S \ {x} : StrLess(x, y)
         IN  <<m>> \o sorted(S \ {m})

\* token_set: every symbol of every token of the vocabulary
TokenSet(v) == UNION {Range(v[k].key) : k \in DOMAIN v}

\* token_list = SPECIAL_TOKENS + sorted(token_set - set(SPECIAL_TOKENS))
TokenList(v) == SPECIAL_TOKENS \o sorted(TokenSet(v) \ Range(SPECIAL_TOKENS))

\* {tok: i for i, tok in enumerate(token_list)}: a later index overwrites
Enumerate(tl) ==
    [tok \in Range(tl) |->
        (CHOOSE k \in DOMAIN tl :
            tl[k] = tok /\ \A j \in DOMAIN tl : tl[j] = tok => j <= k) - 1]

(***************************************************************************)
(* BPETokenizer                                                            *)
(***************************************************************************)
\* merges.index(p): 0-based position of the first occurrence
Rank(ms, p) == (CHOOSE k \in DOMAIN ms :
                   ms[k] = p /\ \A j \in 1..(k - 1) : ms[j] # p) - 1

\* pairs = [(symbols[i], symbols[i+1]) ...]
AdjacentPairs(syms) == [k \in 1..(Len(syms) - 1) |-> <<syms[k], syms[k + 1]>>]

\* merge_candidates: the adjacent pairs that are keys of pair2merged
MergeCandidates(syms, ms) ==
    {p \in Range(AdjacentPairs(syms)) : p \in Range(ms)}

\* a faulty variant: the rule of rank 0, whether or not it is a candidate
FirstRule(syms, ms) == ms[1]

\* a faulty variant: the candidate learned last wins
LastCandidate(syms, ms) ==
    CHOOSE p \in MergeCandidates(syms, ms) :
        \A q \in MergeCandidates(syms, ms) : Rank(ms, q) <= Rank(ms, p)

\* first = min(merge_candidates, key=lambda p: self.merges.index(p))
FirstCandidate(syms, ms) ==
    CHOOSE p \in MergeCandidates(syms, ms) :
        \A q \in MergeCandidates(syms, ms) : Rank(ms, p) <= Rank(ms, q)

RECURSIVE ReplacePair(_, _)
\* the inner while loop of _encode_word: new_symbols for the pair first
ReplacePair(syms, first) ==
    IF syms = <<>> THEN <<>>
    ELSE IF Len(syms) > 1 /\ <<syms[1], syms[2]>> = first
    THEN <<first[1] \o first[2]>> \o ReplacePair(Drop(syms, 2), first)
    ELSE <<Head(syms)>> \o ReplacePair(Tail(syms), first)

\* one round of the "while True" loop of _encode_word
MergeRound(syms, ms) == ReplacePair(syms, FirstCandidate(syms, ms))

RECURSIVE EncodeSymbols(_, _)
\* the symbols the "while True" loop ends with
EncodeSymbols(syms, ms) ==
    IF MergeCandidates(syms, ms) = {} THEN syms
    ELSE EncodeSymbols(MergeRound(syms, ms), ms)

RECURSIVE KeepMarkerIds(_, _)
\* a faulty variant: the end-of-word marker is mapped to its id like any symbol
KeepMarkerIds(syms, t2i) ==
    IF syms = <<>> THEN <<>>
    ELSE <<IF Head(syms) \in DOMAIN t2i THEN t2i[Head(syms)] ELSE t2i[UNK]>>
         \o KeepMarkerIds(Tail(syms), t2i)

RECURSIVE SymbolIds(_, _)
\* [self.token2id.get(s, unk_id) for s in symbols if s != "</w>"]
SymbolIds(syms, t2i) ==
    IF syms = <<>> THEN <<>>
    ELSE IF Head(syms) = EOW THEN SymbolIds(Tail(syms), t2i)
    ELSE <<IF Head(syms) \in DOMAIN t2i THEN t2i[Head(syms)] ELSE t2i[UNK]>>
         \o SymbolIds(Tail(syms), t2i)

\* BPETokenizer._encode_word
encode_word(w, ms, t2i) == SymbolIds(EncodeSymbols(WordToken(w), ms), t2i)

RECURSIVE EncodeWords(_, _, _)
\* the loop "for word in text.split(" ")" of encode
EncodeWords(ws, ms, t2i) ==
    IF ws = <<>> THEN <<>>
    ELSE encode_word(Head(ws), ms, t2i) \o EncodeWords(Tail(ws), ms, t2i)

\* BPETokenizer.encode
encode(t, special, ms, t2i) ==
    LET body == EncodeWords(split(normalize_text(t)), ms, t2i)
    IN  IF special THEN <<t2i[BOS]>> \o body \o <<t2i[EOS]>> ELSE body

\* self.id2token.get(k, self.unk)
IdToken(k, t2i) ==
    IF \E tok \in DOMAIN t2i : t2i[tok] = k
    THEN CHOOSE tok \in DOMAIN t2i : t2i[tok] = k
    ELSE UNK

RECURSIVE ReplaceMarker(_)
\* s.replace("</w>", " ")
ReplaceMarker(s) ==
    IF s = <<>> THEN <<>>
    ELSE IF StartsWith(s, EOW) THEN <<" ">> \o ReplaceMarker(Drop(s, Len(EOW)))
    ELSE <<Head(s)>> \o ReplaceMarker(Tail(s))

\* a faulty variant: special tokens are left out of the decoded text
decode_skip_special(is, t2i) ==
    LET toks == [k \in 1..Len(is) |->
                    IF IdToken(is[k], t2i) \in Range(SPECIAL_TOKENS) THEN <<>>
                    ELSE IdToken(is[k], t2i)]
    IN  strip(ReplaceMarker(Join(toks)))

\* BPETokenizer.decode
decode(is, t2i) ==
    strip(ReplaceMarker(Join([k \in 1..Len(is) |-> IdToken(is[k], t2i)])))

(***************************************************************************)
(* Inputs                                                                  *)
(***************************************************************************)
RawChars == {"a", "b", " "}

\* the texts of at most n characters
Lines(n) == UNION {[1..k -> RawChars] : k \in 0..n}

GeneratedCorpora ==
    {<<>>} \cup {<<l>> : l \in Lines(MaxLineLen)}
           \cup {<<l1, l2>> : l1 \in Lines(MaxShortLen), l2 \in Lines(MaxShortLen)}

HelloWorld == <<"H", "e", "l", "l", "o", " ", "w", "o", "r", "l", "d", "!">>

HelloThereWorld ==
    <<"H", "e", "l", "l", "o", " ", "t", "h", "e", "r", "e", " ",
      "w", "o", "r", "l", "d", "!">>

\* corpora with a merge budget of their own
Scenarios ==
    { [corpus |-> <<HelloWorld, HelloThereWorld>>, num_merges |-> 5],
      [corpus |-> <<BOS>>, num_merges |-> 2],
      [corpus |-> <<EOW, <<"w">>>>, num_merges |-> 3],
      [corpus |-> << <<"\t", "a", NBSP, "\n", "b", "a", " ">> >>, num_merges |-> 1] }

Inputs ==
    {[corpus |-> c, num_merges |-> n] : c \in GeneratedCorpora, n \in (-1)..MaxMerges}
        \cup Scenarios

\* texts encoded besides the lines and the words of the corpus
ProbeTexts == { <<"a", " ", "b">>, <<"c", "a">>, <<"b", NBSP, "\t", "a">> }

Texts == Range(corpus) \cup Range(CorpusWords(corpus)) \cup ProbeTexts

\* id sequences decoded on their own
ProbeIds == {<<k>> : k \in (-1)..MaxProbeId} \cup {<<6, 5, 6>>, <<1, 1>>}

(***************************************************************************)
(* The pipeline of train_and_test.py: train, encode, decode                *)
(***************************************************************************)
Init ==
    \E inp \in Inputs :
        /\ corpus = inp.corpus
        /\ num_merges = inp.num_merges
        /\ vocab = get_vocab_from_corpus(inp.corpus)
        /\ merges = <<>>
        /\ i = 0
        /\ pc = "train"
        /\ token2id = <<>>
        /\ text = <<>>
        /\ add_special = FALSE
        /\ ids = <<>>
        /\ decoded = <<>>
        /\ pair = <<>>
        /\ new_tokens = <<>>
        /\ new_vocab = <<>>
        /\ word = <<>>
        /\ symbols = <<>>

\* one iteration of the training loop that learns a merge
TrainStep ==
    /\ pc = "train"
    /\ InRange(i, num_merges)
    /\ get_pair_frequencies(vocab) # <<>>
    /\ LET most == most_common(get_pair_frequencies(vocab)).key
       IN  /\ merges' = Append(merges, most)
           /\ vocab' = merge_pair(vocab, most)
           /\ pair' = most
    /\ i' = i + 1
    /\ UNCHANGED <<pc, corpus, num_merges, token2id, text, add_special, ids,
                   decoded, new_tokens, new_vocab, word, symbols>>

\* the loop ends, by its range or by the break, and the token list is built
TrainFinish ==
    /\ pc = "train"
    /\ \/ ~InRange(i, num_merges)
       \/ get_pair_frequencies(vocab) = <<>>
    /\ token2id' = Enumerate(TokenList(vocab))
    /\ pc' = "trained"
    /\ UNCHANGED <<corpus, num_merges, i, vocab, merges, text, add_special,
                   ids, decoded, pair, new_tokens,
                   new_vocab, word, symbols>>

\* tokenizer.encode(text, add_special)
Encode ==
    /\ pc = "trained"
    /\ \E t \in Texts, special \in BOOLEAN :
        /\ text' = t
        /\ add_special' = special
        /\ ids' = encode(t, special, merges, token2id)
    /\ pc' = "encoded"
    /\ UNCHANGED <<corpus, num_merges, i, vocab, merges, token2id, decoded,
                   pair, new_tokens, new_vocab, word, symbols>>

\* tokenizer.decode(ids) of the ids just encoded
Decode ==
    /\ pc = "encoded"
    /\ decoded' = decode(ids, token2id)
    /\ pc' = "roundtrip"
    /\ UNCHANGED <<corpus, num_merges, i, vocab, merges, token2id, text,
                   add_special, ids, pair, new_tokens,
                   new_vocab, word, symbols>>

\* tokenizer.decode(ids) of ids given by the caller
DecodeIds ==
    /\ pc = "trained"
    /\ \E is \in ProbeIds :
        /\ ids' = is
        /\ decoded' = decode(is, token2id)
    /\ pc' = "decoded"
    /\ UNCHANGED <<corpus, num_merges, i, vocab, merges, token2id, text,
                   add_special, pair, new_tokens,
                   new_vocab, word, symbols>>

Next == TrainStep \/ TrainFinish \/ Encode \/ Decode \/ DecodeIds

Spec == Init /\ [][Next]_vars

(***************************************************************************)
(* merge_pair on its own, for any vocabulary and any pair                  *)
(***************************************************************************)
ArbSymbols == {<<"a">>, <<"b">>, <<"a", "b">>}

\* the tokens of exactly n symbols
TokensOfLen(n) == [1..n -> ArbSymbols]

RECURSIVE ArbVocabs(_)
\* the vocabularies, distinct tokens with positive counts, whose tokens have
\* at most n symbols in all
ArbVocabs(n) ==
    {<<>>} \cup
    UNION { UNION { { <<[key |-> t, val |-> f]>> \o rest :
                        rest \in {r \in ArbVocabs(n - k) : IndexOf(r, t) = 0} } :
                    t \in TokensOfLen(k), f \in 1..MaxFreq } :
            k \in 1..n }

InitMerge ==
    /\ vocab \in ArbVocabs(MaxVocabSymbols)
    /\ pair \in ArbSymbols \X ArbSymbols
    /\ pc = "merge"
    /\ new_tokens = <<>>
    /\ new_vocab = <<>>
    /\ corpus = <<>>
    /\ num_merges = 0
    /\ i = 0
    /\ merges = <<>>
    /\ token2id = <<>>
    /\ text = <<>>
    /\ add_special = FALSE
    /\ ids = <<>>
    /\ decoded = <<>>
    /\ word = <<>>
    /\ symbols = <<>>

\* new_vocab = merge_pair(vocab, pair)
MergePair ==
    /\ pc = "merge"
    /\ new_tokens' = NewTokens(vocab, pair)
    /\ new_vocab' = merge_pair(vocab, pair)
    /\ pc' = "merged"
    /\ UNCHANGED <<corpus, num_merges, i, vocab, merges, token2id, text,
                   add_special, ids, decoded, pair, word, symbols>>

NextMerge == MergePair

SpecMerge == InitMerge /\ [][NextMerge]_vars

(***************************************************************************)
(* _encode_word on its own, for any word and any merge list                *)
(***************************************************************************)
WordChars == {"a", "b"}

RuleSymbols == {<<"a">>, <<"b">>, <<"a", "b">>, EOW}

ArbWords == UNION {[1..k -> WordChars] : k \in 0..MaxWordLen}

ArbMerges == UNION {[1..k -> RuleSymbols \X RuleSymbols] : k \in 0..MaxRules}

InitEncode ==
    /\ word \in ArbWords
    /\ merges \in ArbMerges
    /\ token2id = Enumerate(SPECIAL_TOKENS \o sorted(RuleSymbols))
    /\ symbols = WordToken(word)
    /\ pc = "enc_loop"
    /\ ids = <<>>
    /\ corpus = <<>>
    /\ num_merges = 0
    /\ i = 0
    /\ vocab = <<>>
    /\ text = <<>>
    /\ add_special = FALSE
    /\ decoded = <<>>
    /\ pair = <<>>
    /\ new_tokens = <<>>
    /\ new_vocab = <<>>

\* one round of the "while True" loop that finds a candidate
EncodeRound ==
    /\ pc = "enc_loop"
    /\ MergeCandidates(symbols, merges) # {}
    /\ symbols' = MergeRound(symbols, merges)
    /\ UNCHANGED <<pc, corpus, num_merges, i, vocab, merges, token2id, text,
                   add_special, ids, decoded, pair, new_tokens, new_vocab, word>>

\* the break of the loop and the mapping to ids
EncodeReturn ==
    /\ pc = "enc_loop"
    /\ MergeCandidates(symbols, merges) = {}
    /\ ids' = SymbolIds(symbols, token2id)
    /\ pc' = "enc_done"
    /\ UNCHANGED <<corpus, num_merges, i, vocab, merges, token2id, text,
                   add_special, decoded, pair, new_tokens, new_vocab, word,
                   symbols>>

NextEncode == EncodeRound \/ EncodeReturn

\* the loop is sequential code: a round that can run does run
FairSpecEncode == InitEncode /\ [][NextEncode]_vars /\ WF_vars(NextEncode)

(***************************************************************************)
(* Properties                                                              *)
(***************************************************************************)
Max(x, y) == IF x >= y THEN x ELSE y

Trained == pc \in {"trained", "encoded", "roundtrip", "decoded"}

\* every character of t other than the separating space is a vocabulary key
CharsInVocab(t) ==
    \A k \in DOMAIN t : t[k] # " " => <<t[k]>> \in DOMAIN token2id

\* C1: decode(encode(normalize_text(text), add_special=False)) is
\* normalize_text(text) whenever every character of the text is in the
\* learned vocabulary and no unknown id was produced.
C1_RoundTrip ==
    ( /\ pc = "roundtrip"
      /\ ~add_special
      /\ CharsInVocab(normalize_text(text))
      /\ token2id[UNK] \notin Range(ids) )
        => decoded = normalize_text(text)

\* C2 as stated: the returned merge list is no longer than num_merges, for
\* every budget, negative ones included, and is shorter only when the pair
\* statistics of the final vocabulary are empty.
C2_BudgetAsStated ==
    Trained =>
        /\ Len(merges) <= num_merges
        /\ Len(merges) < num_merges => get_pair_frequencies(vocab) = <<>>

\* C2 amended: the returned merge list is no longer than max(num_merges, 0),
\* and is shorter than that only when the pair statistics of the final
\* vocabulary are empty.
C2_Budget ==
    Trained =>
        /\ Len(merges) <= Max(num_merges, 0)
        /\ Len(merges) < Max(num_merges, 0) => get_pair_frequencies(vocab) = <<>>

\* training stopped early, after at least one merge
C2_Witness ==
    /\ pc = "trained"
    /\ merges # <<>>
    /\ Len(merges) < num_merges

\* C3: the pair appended to the merge list by an iteration has the largest
\* frequency in the pair statistics of the vocabulary the iteration began
\* with.
C3_MaxFrequency ==
    [][ Len(merges') = Len(merges) + 1 =>
          LET stats == get_pair_frequencies(vocab)
          IN  /\ stats # <<>>
              /\ Get(stats, merges'[Len(merges')]) = MaxVal(stats) ]_vars

\* a merge was learned from statistics whose first pair has frequency 1
\* while another pair has frequency 2 or more
C3_Witness ==
    /\ merges # <<>>
    /\ LET stats == get_pair_frequencies(get_vocab_from_corpus(corpus))
       IN  /\ stats[1].val = 1
           /\ MaxVal(stats) >= 2
           /\ merges[1] # stats[1].key

\* the characters of the words of the normalized corpus, as symbols
CorpusChars == UNION {Range(list(w)) : w \in Range(CorpusWords(corpus))}

Injective(f) == \A x \in DOMAIN f : \A y \in DOMAIN f : f[x] = f[y] => x = y

\* with a budget of zero or less, a corpus word is encoded as its characters
DegenerateEncode ==
    ( /\ pc = "encoded"
      /\ num_merges <= 0
      /\ ~add_special
      /\ text \in Range(CorpusWords(corpus)) )
        => ids = [k \in 1..Len(text) |-> token2id[<<text[k]>>]]

\* C4 as stated: with num_merges <= 0 the merge list is empty, the
\* vocabulary keys are the special tokens, the corpus characters and "</w>",
\* for any corpus, with distinct ids, and a corpus word is encoded as the
\* ids of its characters.
C4_DegenerateAsStated ==
    /\ (Trained /\ num_merges <= 0) =>
          /\ merges = <<>>
          /\ DOMAIN token2id = Range(SPECIAL_TOKENS) \cup CorpusChars \cup {EOW}
          /\ Injective(token2id)
    /\ DegenerateEncode

\* C4 amended: as stated, except that "</w>" is a vocabulary key only when
\* the normalized corpus has at least one word.
C4_Degenerate ==
    /\ (Trained /\ num_merges <= 0) =>
          /\ merges = <<>>
          /\ DOMAIN token2id =
                Range(SPECIAL_TOKENS) \cup CorpusChars \cup
                    (IF CorpusWords(corpus) = <<>> THEN {} ELSE {EOW})
          /\ Injective(token2id)
    /\ DegenerateEncode

\* a corpus word of two different characters was encoded without merges
C4_Witness ==
    /\ pc = "encoded"
    /\ num_merges <= 0
    /\ ~add_special
    /\ text \in Range(CorpusWords(corpus))
    /\ Len(text) >= 2
    /\ text[1] # text[2]
    /\ Len(ids) = Len(text)

\* C5 as stated: decode([id("<unk>")]) is the empty string.
C5_UnknownAsStated ==
    (pc = "decoded" /\ ids = <<token2id[UNK]>>) => decoded = <<>>

\* C5 amended: decode([id("<unk>")]) is the literal string "<unk>".
C5_Unknown ==
    (pc = "decoded" /\ ids = <<token2id[UNK]>>) => decoded = UNK

\* the unknown id was decoded with a model that has learned merges
C5_Witness ==
    /\ pc = "decoded"
    /\ ids = <<token2id[UNK]>>
    /\ merges # <<>>
    /\ decoded # <<>>

\* C6: the special tokens have ids 0..4, the other symbols follow in
\* lexicographic order from 5, the mapping is a bijection onto 0..n-1, and
\* no symbol of a surviving word shape has one of the ids 0..4.
C6_Vocabulary ==
    Trained =>
        /\ \A k \in 1..5 : token2id[SPECIAL_TOKENS[k]] = k - 1
        /\ \A s \in DOMAIN token2id : \A t \in DOMAIN token2id :
              (token2id[s] >= 5 /\ token2id[t] >= 5 /\ StrLess(s, t))
                  => token2id[s] < token2id[t]
        /\ Injective(token2id)
        /\ {token2id[s] : s \in DOMAIN token2id} = 0..(Cardinality(DOMAIN token2id) - 1)
        /\ \A s \in TokenSet(vocab) : token2id[s] \notin 0..4

\* the shape of word w in the vocabulary training ended with
TrainedShape(w) ==
    vocab[CHOOSE k \in DOMAIN vocab : Join(vocab[k].key) = w \o EOW].key

\* C10: for every word of the normalized corpus, the symbols _encode_word
\* ends with are the word's shape in the final training vocabulary, and its
\* ids do not contain the unknown id.
C10_Agreement ==
    /\ Trained =>
          \A w \in Range(CorpusWords(corpus)) :
              /\ EncodeSymbols(WordToken(w), merges) = TrainedShape(w)
              /\ token2id[UNK] \notin Range(encode_word(w, merges, token2id))
    /\ (pc = "encoded" /\ text \in Range(CorpusWords(corpus)))
          => ids = (IF add_special THEN <<token2id[BOS]>> ELSE <<>>)
                   \o SymbolIds(TrainedShape(text), token2id)
                   \o (IF add_special THEN <<token2id[EOS]>> ELSE <<>>)

\* a corpus word in which two rules compete from the start was encoded with
\* a model of three merges or more into fewer symbols than it has characters
C10_Witness ==
    /\ pc = "encoded"
    /\ ~add_special
    /\ text \in Range(CorpusWords(corpus))
    /\ Len(merges) >= 3
    /\ Cardinality(MergeCandidates(WordToken(text), merges)) >= 2
    /\ Len(ids) < Len(text)

RECURSIVE SumWhere(_, _, _)
\* the sum of the counts of the entries of v rewritten to token t
SumWhere(toks, v, t) ==
    IF toks = <<>> THEN 0
    ELSE (IF Head(toks) = t THEN Head(v).val ELSE 0)
         + SumWhere(Tail(toks), Tail(v), t)

\* C7: after merge_pair(vocab, (a, b)) no word shape has more symbols than
\* the shape it was rewritten from, and the pair (a, b) has frequency zero
\* in the pair statistics of the new vocabulary.
C7_MergeRemovesPair ==
    pc = "merged" =>
        /\ Len(new_tokens) = Len(vocab)
        /\ \A k \in DOMAIN vocab : Len(new_tokens[k]) <= Len(vocab[k].key)
        /\ Get(get_pair_frequencies(new_vocab), pair) = 0
        /\ \A k \in DOMAIN new_vocab :
              \A j \in 1..(Len(new_vocab[k].key) - 1) :
                  <<new_vocab[k].key[j], new_vocab[k].key[j + 1]>> # pair

\* a pair of equal symbols was merged in a shape holding it three times in
\* a row, or a pair was merged at the end of a shape
C7_Witness ==
    /\ pc = "merged"
    /\ \E k \in DOMAIN vocab :
          /\ Len(vocab[k].key) >= 3
          /\ Len(new_tokens[k]) < Len(vocab[k].key)
          /\ Get(get_pair_frequencies(vocab), pair) >= 2
          /\ <<vocab[k].key[Len(vocab[k].key) - 1],
               vocab[k].key[Len(vocab[k].key)]>> = pair

\* C8: every rewritten word shape has, in the new vocabulary, the sum of
\* the counts of the shapes rewritten to it, so the sum of all counts is
\* the same before and after the merge.
C8_CountsPreserved ==
    pc = "merged" =>
        /\ \A k \in DOMAIN vocab :
              Get(new_vocab, new_tokens[k]) = SumWhere(new_tokens, vocab, new_tokens[k])
        /\ SumVals(new_vocab) = SumVals(vocab)

\* C9: the merge loop of _encode_word terminates, every round shortens the
\* symbol sequence, and the sequence it ends with has no adjacent pair that
\* is a rule of the merge list.
C9_EncodeTerminates ==
    /\ [][ (pc = "enc_loop" /\ pc' = "enc_loop") => Len(symbols') < Len(symbols) ]_vars
    /\ <>(pc = "enc_done")
    /\ [](pc = "enc_done" =>
            \A k \in 1..(Len(symbols) - 1) :
                \A r \in DOMAIN merges : <<symbols[k], symbols[k + 1]>> # merges[r])

\* the loop ended after two rounds or more, with rules of both ranks used
C9_Witness ==
    /\ pc = "enc_done"
    /\ Len(merges) >= 2
    /\ Len(symbols) <= Len(word) - 1
    /\ merges[1] # merges[2]
    /\ \E k \in DOMAIN symbols : symbols[k] = merges[2][1] \o merges[2][2]

====
